---- MODULE Spec2Model ----
(***************************************************************************)
(* Model of the Clay tools recommender: the POST handler of                *)
(* src/app/api/recommend/route.ts and the search flow of the page          *)
(* component src/app/page.tsx.                                             *)
(*                                                                         *)
(* A JavaScript string is a sequence of one-character strings.  A          *)
(* JavaScript value is a record [t, s, n]: t is the typeof-like tag, s the *)
(* characters of a string, n the value of a number.  A relevance score is  *)
(* counted in tenths (3 stands for 0.3).                                   *)
(***************************************************************************)
EXTENDS Integers, Sequences, FiniteSets, TLC

\* ------------------------------------------------------------------------
\* Bounds of the model
\* ------------------------------------------------------------------------
MaxCatalog == 2

MaxRecs == 2

MaxProps == 2

\* ------------------------------------------------------------------------
\* Strings
\* ------------------------------------------------------------------------
Range(f) == {f[i] : i \in DOMAIN f}

IsWhitespace(c) == c = " "

\* String.prototype.toLowerCase on one character of the alphabet used here
LowerChar(c) == IF c = "A" THEN "a" ELSE IF c = "B" THEN "b" ELSE c

toLowerCase(s) == [i \in DOMAIN s |-> LowerChar(s[i])]

RECURSIVE trimStart(_)
trimStart(s) ==
    IF s = <<>> THEN <<>>
    ELSE IF IsWhitespace(Head(s)) THEN trimStart(Tail(s))
    ELSE s

RECURSIVE trimEnd(_)
trimEnd(s) ==
    IF s = <<>> THEN <<>>
    ELSE IF IsWhitespace(s[Len(s)]) THEN trimEnd(SubSeq(s, 1, Len(s) - 1))
    ELSE s

\* String.prototype.trim
trim(s) == trimEnd(trimStart(s))

\* String.prototype.split(","): the fragments between the commas, in order
RECURSIVE splitFrom(_, _, _)
splitFrom(s, i, cur) ==
    IF i > Len(s) THEN <<cur>>
    ELSE IF s[i] = "," THEN <<cur>> \o splitFrom(s, i + 1, <<>>)
    ELSE splitFrom(s, i + 1, Append(cur, s[i]))

split(s) == splitFrom(s, 1, <<>>)

STR_UNDEFINED == <<"u", "n", "d", "e", "f", "i", "n", "e", "d">>

\* ------------------------------------------------------------------------
\* JavaScript values
\* ------------------------------------------------------------------------
Undef == [t |-> "undefined", s |-> <<>>, n |-> 0]

Null == [t |-> "null", s |-> <<>>, n |-> 0]

Str(s) == [t |-> "string", s |-> s, n |-> 0]

Num(n) == [t |-> "number", s |-> <<>>, n |-> n]

\* an array used as a field value; its elements play no part
ArrVal == [t |-> "array", s |-> <<>>, n |-> 0]

\* ToBoolean
Truthy(v) ==
    CASE v.t = "undefined" -> FALSE
      [] v.t = "null" -> FALSE
      [] v.t = "string" -> v.s # <<>>
      [] v.t = "number" -> v.n # 0
      [] OTHER -> TRUE

\* a || b || c ...: the first truthy operand, else the last operand
RECURSIVE OrChain(_)
OrChain(vs) ==
    IF Len(vs) = 1 THEN vs[1]
    ELSE IF Truthy(Head(vs)) THEN Head(vs)
    ELSE OrChain(Tail(vs))

\* ------------------------------------------------------------------------
\* The remote catalog document
\* ------------------------------------------------------------------------
FieldKeys ==
    {"Name Of Tool", "name", "Name", "title",
     "Description", "description", "desc",
     "Url", "url", "website",
     "GTM Use Cases", "use_cases", "useCases",
     "Clay Integration Overview", "integration"}

NoFields == [k \in FieldKeys |-> Undef]

\* an element of the raw array: a JSON object with some of the fields set,
\* JSON null, or a JSON primitive (a number)
ObjRec(f) == [kind |-> "object", f |-> f]

NullRec == [kind |-> "null", f |-> NoFields]

PrimRec == [kind |-> "primitive", f |-> NoFields]

RecA == ObjRec([NoFields EXCEPT !["name"] = Str(<<"a">>)])

RecPaddedA ==
    ObjRec([NoFields EXCEPT !["Name Of Tool"] = Str(<<" ", "A", " ">>),
                            !["GTM Use Cases"] = Str(<<"x", ",", " ", "y">>)])

RecB ==
    ObjRec([NoFields EXCEPT !["title"] = Str(<<"b">>),
                            !["Description"] = Str(<<"d">>),
                            !["url"] = Str(<<"u">>)])

RecNoName == ObjRec([NoFields EXCEPT !["description"] = Str(<<"d">>)])

RecBlankFirstAlias ==
    ObjRec([NoFields EXCEPT !["Name Of Tool"] = Str(<<" ">>),
                            !["name"] = Str(<<"b">>)])

RecNumberName == ObjRec([NoFields EXCEPT !["Name"] = Num(5)])

RecArrayUseCases ==
    ObjRec([NoFields EXCEPT !["Name"] = Str(<<"b">>),
                            !["use_cases"] = ArrVal])

RawRecords ==
    {RecA, RecPaddedA, RecB, RecNoName, RecBlankFirstAlias, RecNumberName,
     RecArrayUseCases, NullRec, PrimRec}

SeqsUpTo(S, n) == UNION {[1..k -> S] : k \in 0..n}

Catalogs == SeqsUpTo(RawRecords, MaxCatalog)

\* the arrays that appear under a property of an object document
SmallCatalogs == {<<>>, <<RecA>>, <<RecB>>}

PropKeys == {"tools", "data", "items", "meta"}

ArrProp(c) == [isArray |-> TRUE, items |-> c]

NonArrProp == [isArray |-> FALSE, items |-> <<>>]

PropVals == {NonArrProp} \cup {ArrProp(c) : c \in SmallCatalogs}

Props == [k : PropKeys, v : PropVals]

\* own properties of a parsed object, in Object.values enumeration order
PropLists ==
    {ps \in SeqsUpTo(Props, MaxProps) :
        \A i, j \in DOMAIN ps : i # j => ps[i].k # ps[j].k}

ArrayDoc(c) == [t |-> "array", items |-> c, props |-> <<>>]

ObjectDoc(ps) == [t |-> "object", items |-> <<>>, props |-> ps]

NullDoc == [t |-> "null", items |-> <<>>, props |-> <<>>]

PrimDoc == [t |-> "primitive", items |-> <<>>, props |-> <<>>]

\* what res.json() can resolve to
JsonDocs ==
    {ArrayDoc(c) : c \in Catalogs} \cup {ObjectDoc(ps) : ps \in PropLists}
        \cup {NullDoc, PrimDoc}

\* json.<key>: the value of the own property, undefined when there is none
HasProp(json, key) == \E i \in DOMAIN json.props : json.props[i].k = key

GetProp(json, key) ==
    IF HasProp(json, key)
    THEN (CHOOSE p \in Range(json.props) : p.k = key).v
    ELSE NonArrProp

\* variant: the last array-valued property is taken
RECURSIVE FindLastArray(_)
FindLastArray(ps) ==
    IF ps = <<>> THEN NonArrProp
    ELSE IF ps[Len(ps)].v.isArray THEN ps[Len(ps)].v
    ELSE FindLastArray(SubSeq(ps, 1, Len(ps) - 1))

\* Object.values(json).find((val) => Array.isArray(val))
RECURSIVE FindFirstArray(_)
FindFirstArray(ps) ==
    IF ps = <<>> THEN NonArrProp
    ELSE IF Head(ps).v.isArray THEN Head(ps).v
    ELSE FindFirstArray(Tail(ps))

\* route.ts lines 46-71: the raw array chosen from the document, and whether
\* the try block throws (Object.keys(null), or no array / an empty array)
ExtractRawTools(json) ==
    IF json.t = "null" THEN [threw |-> TRUE, rawTools |-> <<>>]
    ELSE LET found ==
                 IF json.t = "array" THEN json.items
                 ELSE IF GetProp(json, "tools").isArray
                      THEN GetProp(json, "tools").items
                 ELSE IF GetProp(json, "data").isArray
                      THEN GetProp(json, "data").items
                 ELSE FindFirstArray(json.props).items
         IN  [threw |-> Len(found) = 0, rawTools |-> found]

\* ------------------------------------------------------------------------
\* Normalization (route.ts lines 78-108)
\* ------------------------------------------------------------------------
CATEGORY == "Clay Integration"

INTEGRATION_DIFFICULTY == "Medium"

PRICING_MODEL == "Varies"

EmptyMap == <<>>

\* variant: a key already in the map keeps its first value
MapSet_keepFirst(m, k, v) ==
    [x \in (DOMAIN m) \cup {k} |-> IF x \in DOMAIN m THEN m[x] ELSE v]

MapSet(m, k, v) == [x \in (DOMAIN m) \cup {k} |-> IF x = k THEN v ELSE m[x]]

NameOf(rawTool) ==
    OrChain(<<rawTool.f["Name Of Tool"], rawTool.f["name"],
              rawTool.f["Name"], rawTool.f["title"]>>)

DescriptionOf(rawTool) ==
    OrChain(<<rawTool.f["Description"], rawTool.f["description"],
              rawTool.f["desc"], Str(<<>>)>>)

UrlOf(rawTool) ==
    OrChain(<<rawTool.f["Url"], rawTool.f["url"], rawTool.f["website"],
              Str(<<>>)>>)

GtmUseCasesOf(rawTool) ==
    OrChain(<<rawTool.f["GTM Use Cases"], rawTool.f["use_cases"],
              rawTool.f["useCases"], Str(<<>>)>>)

ClayIntegrationOf(rawTool) ==
    OrChain(<<rawTool.f["Clay Integration Overview"],
              rawTool.f["integration"], Str(<<>>)>>)

\* name && typeof name === "string" && name.trim()
HasValidName(name) ==
    Truthy(name) /\ name.t = "string" /\ trim(name.s) # <<>>

\* gtmUseCases ? gtmUseCases.split(",").map((s) => s.trim()) : []
UseCasesOf(gtm) ==
    IF Truthy(gtm)
    THEN LET parts == split(gtm.s)
         IN  [i \in DOMAIN parts |-> trim(parts[i])]
    ELSE <<>>

\* a truthy value without a split method: calling it is a TypeError
SplitThrows(gtm) == Truthy(gtm) /\ gtm.t # "string"

NormalizedTool(rawTool) ==
    [name |-> trim(NameOf(rawTool).s),
     description |-> DescriptionOf(rawTool),
     website |-> UrlOf(rawTool),
     category |-> CATEGORY,
     use_cases |-> UseCasesOf(GtmUseCasesOf(rawTool)),
     integration_difficulty |-> INTEGRATION_DIFFICULTY,
     pricing_model |-> PRICING_MODEL,
     clay_integration |-> ClayIntegrationOf(rawTool)]

\* one iteration of the forEach callback; reading a property of null throws
NormalizeOne(acc, rawTool) ==
    IF acc.threw THEN acc
    ELSE IF rawTool.kind = "null" THEN [acc EXCEPT !.threw = TRUE]
    ELSE IF HasValidName(NameOf(rawTool))
    THEN IF SplitThrows(GtmUseCasesOf(rawTool))
         THEN [acc EXCEPT !.threw = TRUE]
         ELSE LET tool == NormalizedTool(rawTool)
              IN  [threw |-> FALSE,
                   tools |-> Append(acc.tools, tool),
                   toolMap |-> MapSet(acc.toolMap, toLowerCase(tool.name), tool),
                   toolNames |-> Append(acc.toolNames, tool.name)]
    ELSE acc

RECURSIVE NormalizeFrom(_, _)
NormalizeFrom(acc, raws) ==
    IF raws = <<>> THEN acc
    ELSE NormalizeFrom(NormalizeOne(acc, Head(raws)), Tail(raws))

Normalize(raws) ==
    NormalizeFrom([threw |-> FALSE, tools |-> <<>>, toolMap |-> EmptyMap,
                   toolNames |-> <<>>], raws)

\* ------------------------------------------------------------------------
\* Validation, ranking and the relevance gate (route.ts lines 151-192)
\* ------------------------------------------------------------------------
\* 0.3, in tenths
MIN_RELEVANCE == 3

Scores == {2, 3}

RecNames ==
    {<<>>, STR_UNDEFINED, <<"A">>, <<" ", "a">>, <<"b">>}

ModelRecs ==
    [tool_name : RecNames, relevance_score : Scores, reasoning : {<<"r">>}]

\* the objects generateObject can resolve to under RecommendationSchema
ModelObjects == [recommendations : SeqsUpTo(ModelRecs, MaxRecs)]

NoObject == [recommendations |-> <<>>]

\* toolMap.get(rec.tool_name.toLowerCase())
LookupKey(tool_name) == toLowerCase(tool_name)

\* the callback of .map: TRUE when it returns an object, FALSE when null
RecMatches(rec, map) ==
    /\ rec.tool_name # <<>>
    /\ rec.tool_name # STR_UNDEFINED
    /\ LookupKey(rec.tool_name) \in DOMAIN map

\* variant: the tool record is built from the model's answer, not the catalog
MatchedRec_fromAnswer(rec, map) ==
    [tool |-> [map[LookupKey(rec.tool_name)] EXCEPT !.name = rec.tool_name],
     relevance_score |-> rec.relevance_score,
     reasoning |-> rec.reasoning]

MatchedRec(rec, map) ==
    [tool |-> map[LookupKey(rec.tool_name)],
     relevance_score |-> rec.relevance_score,
     reasoning |-> rec.reasoning]

\* .map(...).filter(Boolean)
RECURSIVE MapFilter(_, _)
MapFilter(recs, map) ==
    IF recs = <<>> THEN <<>>
    ELSE IF RecMatches(Head(recs), map)
         THEN <<MatchedRec(Head(recs), map)>> \o MapFilter(Tail(recs), map)
         ELSE MapFilter(Tail(recs), map)

\* the comparator (a, b) => b.relevance_score - a.relevance_score puts x
\* before y exactly when x has the higher score
ComesBefore(x, y) == x.relevance_score > y.relevance_score

\* stable insertion: x goes behind every element it does not come before
RECURSIVE InsertSorted(_, _)
InsertSorted(sorted, x) ==
    IF sorted = <<>> THEN <<x>>
    ELSE IF ComesBefore(x, Head(sorted)) THEN <<x>> \o sorted
    ELSE <<Head(sorted)>> \o InsertSorted(Tail(sorted), x)

\* Array.prototype.sort with that comparator (the sort is stable)
RECURSIVE SortFrom(_, _)
SortFrom(sorted, rest) ==
    IF rest = <<>> THEN sorted
    ELSE SortFrom(InsertSorted(sorted, Head(rest)), Tail(rest))

\* variant: the list is returned in the model's order
SortByScore_unsorted(recs) == recs

SortByScore(recs) == SortFrom(<<>>, recs)

ValidRecommendations(obj, map) ==
    SortByScore(MapFilter(obj.recommendations, map))

\* validRecommendations.some((rec) => rec.relevance_score >= MIN_RELEVANCE)
HasStrongMatch(valid) ==
    \E i \in DOMAIN valid : valid[i].relevance_score >= MIN_RELEVANCE

\* ------------------------------------------------------------------------
\* Responses
\* ------------------------------------------------------------------------
NO_MATCH_MESSAGE == "Sorry we couldn't recommend a tool for this use case. You can submit your use case to tanay@claybootcamp.com or check out the whole list of tools at https://remarkable-lily-32f8dd.netlify.app/"

NoResponse == [kind |-> "none", status |-> 0, text |-> "", recommendations |-> <<>>]

ErrorResponse(text, status) ==
    [kind |-> "error", status |-> status, text |-> text, recommendations |-> <<>>]

MessageResponse(text) ==
    [kind |-> "message", status |-> 200, text |-> text, recommendations |-> <<>>]

RecommendationsResponse(recs) ==
    [kind |-> "recommendations", status |-> 200, text |-> "", recommendations |-> recs]

\* variant: the message is sent only for an empty list
GateResponse_emptyOnly(valid) ==
    IF Len(valid) = 0
    THEN MessageResponse(NO_MATCH_MESSAGE)
    ELSE RecommendationsResponse(valid)

IsStrong(rec) == rec.relevance_score >= MIN_RELEVANCE

\* variant: the threshold also removes the entries below it
GateResponse_filtered(valid) ==
    IF Len(valid) = 0 \/ ~HasStrongMatch(valid)
    THEN MessageResponse(NO_MATCH_MESSAGE)
    ELSE RecommendationsResponse(SelectSeq(valid, IsStrong))

\* route.ts lines 185-192
GateResponse(valid) ==
    IF Len(valid) = 0 \/ ~HasStrongMatch(valid)
    THEN MessageResponse(NO_MATCH_MESSAGE)
    ELSE RecommendationsResponse(valid)

\* ------------------------------------------------------------------------
\* Requests
\* ------------------------------------------------------------------------
ApiKeys == {Undef, Str(<<>>), Str(<<"k">>)}

QueryValues ==
    {Undef, Null, Num(5), Str(<<>>), Str(<<" ">>), Str(<<"q">>)}

\* a request body: text that is not JSON, JSON null, a JSON primitive, or a
\* JSON object whose query property is the given value
MalformedBody == [t |-> "malformed", query |-> Undef]

NullBody == [t |-> "null", query |-> Undef]

PrimBody == [t |-> "primitive", query |-> Undef]

ObjectBody(q) == [t |-> "object", query |-> q]

Bodies ==
    {MalformedBody, NullBody, PrimBody} \cup {ObjectBody(q) : q \in QueryValues}

NoRequest == [present |-> FALSE, origin |-> "none", body |-> MalformedBody]

\* variant: a query of white space only is accepted
IsInvalidQuery_noTrim(q) == ~Truthy(q) \/ q.t # "string"

\* !query || typeof query !== "string" || !query.trim()
IsInvalidQuery(q) ==
    ~Truthy(q) \/ q.t # "string" \/ trim(q.s) = <<>>

FetchOutcomes == {"rejected", "notOk", "ok"}

\* ------------------------------------------------------------------------
\* State
\* ------------------------------------------------------------------------
VARIABLES
    apiKey,               \* process.env.OPENAI_API_KEY
    request,              \* the request of the page on its way to the route
    req,                  \* the Request the invocation of POST serves, route.ts line 18
    pc,                   \* where the invocation of POST stands
    fetchCalls,           \* fetch(TOOLS_URL) calls made by this invocation
    modelCalls,           \* generateObject calls made by this invocation
    json,                 \* route.ts line 46
    rawTools,             \* route.ts line 37
    tools,                \* route.ts line 78
    toolMap,              \* route.ts line 79
    toolNames,            \* route.ts line 80
    object,               \* route.ts line 122
    validRecommendations, \* route.ts line 151
    response,             \* what POST returned
    query,                \* page.tsx line 36
    recommendations,      \* page.tsx line 37
    loading,              \* page.tsx line 38
    alerted,              \* the last search ended in alert(), page.tsx line 127
    pagePc                \* where handleSearch stands, page.tsx lines 96-131

handlerVars ==
    <<req, pc, fetchCalls, modelCalls, json, rawTools, tools, toolMap, toolNames,
      object, validRecommendations, response>>

pageVars == <<query, recommendations, loading, alerted, pagePc>>

vars == <<apiKey, request, handlerVars, pageVars>>

NoReq == [origin |-> "none", body |-> MalformedBody]

NoDoc == [t |-> "none", items |-> <<>>, props |-> <<>>]

\* the page state `recommendations`: null, or the parsed response body, which
\* has a recommendations array only when the handler sent one
NullData == [isNull |-> TRUE, hasList |-> FALSE, list |-> <<>>]

DataOf(resp) ==
    [isNull |-> FALSE,
     hasList |-> resp.kind = "recommendations",
     list |-> resp.recommendations]

PageQueries == {<<>>, <<" ">>, <<"q">>}

Finished == pc \in {"idle", "returned", "threw"}

Init ==
    /\ apiKey \in ApiKeys
    /\ request = NoRequest
    /\ req = NoReq
    /\ pc = "idle"
    /\ fetchCalls = 0
    /\ modelCalls = 0
    /\ json = NoDoc
    /\ rawTools = <<>>
    /\ tools = <<>>
    /\ toolMap = EmptyMap
    /\ toolNames = <<>>
    /\ object = NoObject
    /\ validRecommendations = <<>>
    /\ response = NoResponse
    /\ query = <<>>
    /\ recommendations = NullData
    /\ loading = FALSE
    /\ alerted = FALSE
    /\ pagePc = "idle"

\* ------------------------------------------------------------------------
\* The handler, one action per stretch of POST between two awaits
\* ------------------------------------------------------------------------
Return(resp) ==
    /\ pc' = "returned"
    /\ response' = resp

Throw ==
    /\ pc' = "threw"
    /\ response' = NoResponse

\* route.ts lines 18-28: a fresh invocation serving `body`; the key check,
\* then req.json()
POST(origin, body) ==
    /\ Finished
    /\ req' = [origin |-> origin, body |-> body]
    /\ fetchCalls' = 0
    /\ modelCalls' = 0
    /\ json' = NoDoc
    /\ rawTools' = <<>>
    /\ tools' = <<>>
    /\ toolMap' = EmptyMap
    /\ toolNames' = <<>>
    /\ object' = NoObject
    /\ validRecommendations' = <<>>
    /\ IF ~Truthy(apiKey)
       THEN Return(ErrorResponse("OPENAI_API_KEY is missing.", 500))
       ELSE /\ pc' = "awaitReqJson"
            /\ response' = NoResponse
    /\ UNCHANGED <<apiKey, pageVars>>

\* a client other than the page calls the route with any body
DirectRequest(body) ==
    /\ ~request.present
    /\ ~loading
    /\ POST("direct", body)
    /\ UNCHANGED request

\* the request sent by the page reaches the route
PageRequest ==
    /\ request.present
    /\ POST("page", request.body)
    /\ request' = [request EXCEPT !.present = FALSE]

\* route.ts lines 28-40: req.json() settles, the query check, then fetch
ReqJsonSettled ==
    /\ pc = "awaitReqJson"
    /\ IF req.body.t \in {"malformed", "null"}
       THEN Throw /\ UNCHANGED fetchCalls
       ELSE IF IsInvalidQuery(req.body.query)
       THEN /\ Return(ErrorResponse("Missing or empty query.", 400))
            /\ UNCHANGED fetchCalls
       ELSE /\ pc' = "awaitFetch"
            /\ fetchCalls' = fetchCalls + 1
            /\ UNCHANGED response
    /\ UNCHANGED <<apiKey, request, req, modelCalls, json, rawTools, tools, toolMap,
                   toolNames, object, validRecommendations, pageVars>>

\* route.ts lines 40-46 and 72-75: fetch settles, res.ok, then res.json()
FetchSettled(outcome) ==
    /\ pc = "awaitFetch"
    /\ IF outcome = "ok"
       THEN pc' = "awaitResJson" /\ UNCHANGED response
       ELSE Return(ErrorResponse("Failed to load tools list.", 500))
    /\ UNCHANGED <<apiKey, request, req, fetchCalls, modelCalls, json, rawTools,
                   tools, toolMap, toolNames, object, validRecommendations,
                   pageVars>>

\* route.ts lines 46 and 72-75: res.json() rejects on a body that is not JSON
ResJsonRejected ==
    /\ pc = "awaitResJson"
    /\ Return(ErrorResponse("Failed to load tools list.", 500))
    /\ UNCHANGED <<apiKey, request, req, fetchCalls, modelCalls, json, rawTools,
                   tools, toolMap, toolNames, object, validRecommendations,
                   pageVars>>

\* route.ts lines 46-146: res.json() resolves; extraction, normalization and
\* the call of generateObject
ResJsonResolved(doc) ==
    /\ pc = "awaitResJson"
    /\ json' = doc
    /\ LET ex == ExtractRawTools(doc)
           norm == Normalize(ex.rawTools)
       IN  /\ rawTools' = ex.rawTools
           /\ IF ex.threw
              THEN /\ Return(ErrorResponse("Failed to load tools list.", 500))
                   /\ UNCHANGED <<tools, toolMap, toolNames, modelCalls>>
              ELSE /\ tools' = norm.tools
                   /\ toolMap' = norm.toolMap
                   /\ toolNames' = norm.toolNames
                   /\ IF norm.threw
                      THEN Throw /\ UNCHANGED modelCalls
                      ELSE IF Len(norm.tools) = 0
                      THEN /\ Return(ErrorResponse(
                                  "No valid tools found in the data", 500))
                           /\ UNCHANGED modelCalls
                      ELSE /\ pc' = "awaitModel"
                           /\ modelCalls' = modelCalls + 1
                           /\ UNCHANGED response
    /\ UNCHANGED <<apiKey, request, req, fetchCalls, object, validRecommendations,
                   pageVars>>

\* route.ts lines 193-196: generateObject rejects (the call failed or the
\* answer violates the schema)
ModelRejected ==
    /\ pc = "awaitModel"
    /\ Return(ErrorResponse("AI processing failed", 500))
    /\ json' = NoDoc
    /\ rawTools' = <<>>
    /\ UNCHANGED <<apiKey, request, req, fetchCalls, modelCalls, tools, toolMap,
                   toolNames, object, validRecommendations, pageVars>>

\* route.ts lines 148-192: generateObject resolves; validation, ranking, gate.
\* json went out of scope at line 72 and rawTools is not read after line 108:
\* both are dropped here.
ModelResolved(obj) ==
    /\ pc = "awaitModel"
    /\ object' = obj
    /\ LET valid == ValidRecommendations(obj, toolMap)
       IN  /\ validRecommendations' = valid
           /\ Return(GateResponse(valid))
    /\ json' = NoDoc
    /\ rawTools' = <<>>
    /\ UNCHANGED <<apiKey, request, req, fetchCalls, modelCalls, tools, toolMap,
                   toolNames, pageVars>>

HandlerStep ==
    \/ ReqJsonSettled
    \/ \E outcome \in FetchOutcomes : FetchSettled(outcome)
    \/ ResJsonRejected
    \/ \E doc \in JsonDocs : ResJsonResolved(doc)
    \/ ModelRejected
    \/ \E obj \in ModelObjects : ModelResolved(obj)

Next ==
    \/ \E body \in Bodies : DirectRequest(body)
    \/ HandlerStep

Spec == Init /\ [][Next]_vars

\* ------------------------------------------------------------------------
\* The page (page.tsx), one search at a time
\* ------------------------------------------------------------------------
\* onChange of the search input, and the example buttons; both are disabled
\* while loading (page.tsx lines 214-220 and 237-243)
SetQuery(q) ==
    /\ ~loading
    /\ query' = q
    /\ UNCHANGED <<apiKey, request, handlerVars, recommendations, loading,
                   alerted, pagePc>>

\* page.tsx lines 96-111: handleSearch up to the await of fetch
HandleSearch ==
    /\ ~loading
    /\ pagePc = "idle"
    /\ ~request.present
    /\ IF trim(query) = <<>>
       THEN UNCHANGED <<request, recommendations, loading, alerted, pagePc>>
       ELSE /\ loading' = TRUE
            /\ recommendations' = NullData
            /\ alerted' = FALSE
            /\ pagePc' = "awaitFetch"
            /\ request' = [present |-> TRUE, origin |-> "page",
                           body |-> ObjectBody(Str(query))]
    /\ UNCHANGED <<apiKey, handlerVars, query>>

\* the invocation serving the page's request has ended
Answered ==
    /\ req.origin = "page"
    /\ ~request.present
    /\ pc \in {"returned", "threw"}

\* response.ok: a status in 200..299; an invocation that threw reaches the
\* page as a failure response
ResponseOk == pc = "returned" /\ response.status >= 200 /\ response.status <= 299

\* page.tsx lines 125-130: the catch and finally blocks
CatchAndFinally ==
    /\ alerted' = TRUE
    /\ loading' = FALSE
    /\ pagePc' = "idle"
    /\ UNCHANGED recommendations

\* page.tsx lines 105 and 125-130: the fetch of the page rejects, at any
\* moment before it resolves; a request still on its way is lost, an
\* invocation already serving it runs on unobserved
PageFetchRejected ==
    /\ pagePc = "awaitFetch"
    /\ request' = [request EXCEPT !.present = FALSE]
    /\ CatchAndFinally
    /\ UNCHANGED <<apiKey, handlerVars, query>>

\* page.tsx lines 105-121: the fetch resolves; response.ok is read and the
\* body is asked for, response.text() on a failure status, else
\* response.json()
PageFetchResolved ==
    /\ pagePc = "awaitFetch"
    /\ Answered
    /\ pagePc' = "awaitBody"
    /\ UNCHANGED <<apiKey, request, handlerVars, query, recommendations,
                   loading, alerted>>

\* page.tsx lines 116-130: the body is read; a failure status throws into the
\* catch, a success stores the parsed body
PageBodyResolved ==
    /\ pagePc = "awaitBody"
    /\ IF ResponseOk
       THEN /\ recommendations' = DataOf(response)
            /\ loading' = FALSE
            /\ pagePc' = "idle"
            /\ UNCHANGED alerted
       ELSE CatchAndFinally
    /\ UNCHANGED <<apiKey, request, handlerVars, query>>

\* page.tsx lines 116, 121 and 125-130: reading the body rejects
PageBodyRejected ==
    /\ pagePc = "awaitBody"
    /\ CatchAndFinally
    /\ UNCHANGED <<apiKey, request, handlerVars, query>>

\* page.tsx line 252
ShowsLoading == loading

\* page.tsx line 276: recommendations.recommendations?.length === 0
ShowsNoResults ==
    /\ ~recommendations.isNull
    /\ ~loading
    /\ recommendations.hasList
    /\ Len(recommendations.list) = 0

\* page.tsx line 287: recommendations.recommendations?.length > 0
ShowsRecommendations ==
    /\ ~recommendations.isNull
    /\ ~loading
    /\ recommendations.hasList
    /\ Len(recommendations.list) > 0

NextPage ==
    \/ \E q \in PageQueries : SetQuery(q)
    \/ HandleSearch
    \/ PageRequest
    \/ HandlerStep
    \/ PageFetchRejected
    \/ PageFetchResolved
    \/ PageBodyResolved
    \/ PageBodyRejected

SpecPage == Init /\ [][NextPage]_vars

\* ------------------------------------------------------------------------
\* Properties
\* ------------------------------------------------------------------------
AI_FAILED == ErrorResponse("AI processing failed", 500)

\* the invocation got an object from the model and ran lines 151-192 on it
ValidationRan == pc = "returned" /\ modelCalls = 1 /\ response # AI_FAILED

\* a returned name matches a catalog tool, letter case aside
MatchesIgnoringCase(tool_name, tool) ==
    toLowerCase(tool_name) = toLowerCase(tool.name)

\* C1: every recommendation of a {recommendations} response carries a tool of
\* the tool list normalized in the same invocation and stems from a returned
\* object whose name matches that tool; the response list is no longer than the
\* raw model list.
C1_ToolsComeFromCatalog ==
    response.kind = "recommendations" =>
        /\ Len(response.recommendations) <= Len(object.recommendations)
        /\ \A i \in DOMAIN response.recommendations :
              LET r == response.recommendations[i]
              IN  /\ r.tool \in Range(tools)
                  /\ \E j \in DOMAIN object.recommendations :
                        LET m == object.recommendations[j]
                        IN  /\ MatchesIgnoringCase(m.tool_name, r.tool)
                            /\ m.relevance_score = r.relevance_score
                            /\ m.reasoning = r.reasoning

\* a response that lists fewer entries than the model returned, one of them
\* under another letter case than the catalog's
C1_Witness ==
    /\ response.kind = "recommendations"
    /\ Len(response.recommendations) < Len(object.recommendations)
    /\ \E i \in DOMAIN response.recommendations :
          response.recommendations[i].tool.name = <<"a">>
    /\ \E j \in DOMAIN object.recommendations :
          object.recommendations[j].tool_name = <<"b">>

AllBelowThreshold(recs) ==
    \A i \in DOMAIN recs : recs[i].relevance_score < MIN_RELEVANCE

\* C2: when no recommendation survives validation, or every survivor scores
\* below 0.3, the response is the fixed message with status 200; a
\* {recommendations} response is never empty.
C2_NoMatchMessage ==
    /\ (ValidationRan /\ AllBelowThreshold(validRecommendations)) =>
           response = MessageResponse(NO_MATCH_MESSAGE)
    /\ response.kind = "recommendations" => Len(response.recommendations) > 0

\* survivors exist, all of them below the threshold
C2_Witness ==
    /\ ValidationRan
    /\ Len(validRecommendations) > 0
    /\ AllBelowThreshold(validRecommendations)
    /\ response.kind = "message"

\* the returned objects that pass the checks of lines 155-167
Survivors ==
    {j \in DOMAIN object.recommendations :
        LET n == object.recommendations[j].tool_name
        IN  /\ n # <<>>
            /\ n # STR_UNDEFINED
            /\ \E t \in Range(tools) : MatchesIgnoringCase(n, t)}

\* C3: when some survivor scores at least 0.3 the response lists every
\* survivor, those below 0.3 included.
C3_FullListReturned ==
    (ValidationRan /\ ~AllBelowThreshold(validRecommendations)) =>
        /\ response.kind = "recommendations"
        /\ response.recommendations = validRecommendations
        /\ Len(response.recommendations) = Cardinality(Survivors)

\* a returned list with an entry below the threshold
C3_Witness ==
    /\ response.kind = "recommendations"
    /\ \E i \in DOMAIN response.recommendations :
          response.recommendations[i].relevance_score < MIN_RELEVANCE

\* C4: a {recommendations} response is ordered by relevance_score, highest
\* first.
C4_SortedDescending ==
    response.kind = "recommendations" =>
        \A i \in 1..(Len(response.recommendations) - 1) :
            response.recommendations[i].relevance_score
                >= response.recommendations[i + 1].relevance_score

\* the model returned two survivors lowest first
C4_Witness ==
    /\ response.kind = "recommendations"
    /\ Len(response.recommendations) = 2
    /\ Len(object.recommendations) = 2
    /\ object.recommendations[1].relevance_score
           < object.recommendations[2].relevance_score

\* C5: every returned object whose name, lower-cased and trimmed, is the
\* lower-cased trimmed name of a catalog tool survives validation.
C5_TrimmedLookup ==
    ValidationRan =>
        Len(validRecommendations) >=
            Cardinality({j \in DOMAIN object.recommendations :
                \E t \in Range(tools) :
                    trim(toLowerCase(object.recommendations[j].tool_name))
                        = trim(toLowerCase(t.name))})

KEY_MISSING == ErrorResponse("OPENAI_API_KEY is missing.", 500)

QUERY_MISSING == ErrorResponse("Missing or empty query.", 400)

CATALOG_UNAVAILABLE == ErrorResponse("Failed to load tools list.", 500)

\* an invocation of POST is serving, or has served, the request
Invoked == req.origin # "none"

\* the body decodes to a value a query can be read from
BodyDecodes == req.body.t \in {"object", "primitive"}

\* the query is missing, not text, or empty after trimming
QueryUnusable ==
    LET q == req.body.query
    IN  q.t # "string" \/ trim(q.s) = <<>>

\* C6: in a request without the API credential, or whose query is missing, not
\* text or blank, no catalog fetch and no model call is ever made, and what
\* POST returns is its fixed error: status 500 for the credential, else status
\* 400 for the query.
C6_NoNetworkOnInvalidRequest ==
    (Invoked /\ (~Truthy(apiKey) \/ ~BodyDecodes \/ QueryUnusable)) =>
        /\ fetchCalls = 0
        /\ modelCalls = 0
        /\ pc \in {"awaitReqJson", "returned", "threw"}
        /\ ~Truthy(apiKey) => (pc = "returned" /\ response = KEY_MISSING)
        /\ (Truthy(apiKey) /\ BodyDecodes /\ pc # "awaitReqJson") =>
               (pc = "returned" /\ response = QUERY_MISSING)

\* a query of white space only was refused with the credential present
C6_Witness ==
    /\ Invoked
    /\ Truthy(apiKey)
    /\ req.body = ObjectBody(Str(<<" ">>))
    /\ pc = "returned"
    /\ response = QUERY_MISSING
    /\ fetchCalls = 0

\* C7: every invocation of POST ends by returning {recommendations},
\* {message} or {error} with a non-2xx status; nothing escapes as an
\* exception.
C7_AlwaysReturns ==
    /\ pc # "threw"
    /\ pc = "returned" =>
          /\ response.kind \in {"recommendations", "message", "error"}
          /\ response.kind = "error" =>
                (response.status < 200 \/ response.status > 299)

\* C8: once a search of the page has completed with the no-confident-match
\* outcome and loading has ended, the page renders the "No matching tools
\* found" state.
C8_EmptyStateShown ==
    (/\ Answered
     /\ pc = "returned"
     /\ response.kind = "message"
     /\ pagePc = "idle"
     /\ ~alerted
     /\ ~loading) => ShowsNoResults

IsArrayProp(p) == p.v.isArray

\* the array the ordered policy names for a document, if any
PolicyChoice(doc) ==
    IF doc.t = "array" THEN [found |-> TRUE, items |-> doc.items]
    ELSE IF \E p \in Range(doc.props) : p.k = "tools" /\ IsArrayProp(p)
    THEN [found |-> TRUE,
          items |-> (CHOOSE p \in Range(doc.props) : p.k = "tools").v.items]
    ELSE IF \E p \in Range(doc.props) : p.k = "data" /\ IsArrayProp(p)
    THEN [found |-> TRUE,
          items |-> (CHOOSE p \in Range(doc.props) : p.k = "data").v.items]
    ELSE IF \E i \in DOMAIN doc.props : IsArrayProp(doc.props[i])
    THEN LET first == CHOOSE i \in DOMAIN doc.props :
                          /\ IsArrayProp(doc.props[i])
                          /\ \A j \in 1..(i - 1) : ~IsArrayProp(doc.props[j])
         IN  [found |-> TRUE, items |-> doc.props[first].v.items]
    ELSE [found |-> FALSE, items |-> <<>>]

\* C9: the raw list is the root array, else the array under tools, else the
\* array under data, else the first array-valued property, elements in their
\* original order; with no array, or an empty one, the request fails with
\* "Failed to load tools list." and status 500.
C9_ExtractionPolicy ==
    json # NoDoc =>
        LET c == PolicyChoice(json)
        IN  IF c.found /\ c.items # <<>>
            THEN rawTools = c.items /\ response # CATALOG_UNAVAILABLE
            ELSE /\ pc = "returned"
                 /\ response = CATALOG_UNAVAILABLE
                 /\ modelCalls = 0

\* two array-valued properties, neither tools nor data: the first was taken
C9_Witness ==
    /\ json.t = "object"
    /\ Len(json.props) = 2
    /\ json.props[1].k \notin {"tools", "data"}
    /\ json.props[2].k \notin {"tools", "data"}
    /\ json.props[1].v = ArrProp(<<RecA>>)
    /\ json.props[2].v = ArrProp(<<RecB>>)
    /\ rawTools = <<RecA>>
    /\ pc = "awaitModel"

NameAliases == {"Name Of Tool", "name", "Name", "title"}

\* some name alias of the record holds text that is not blank
HasUsableAlias(rawTool) ==
    /\ rawTool.kind = "object"
    /\ \E k \in NameAliases :
          rawTool.f[k].t = "string" /\ trim(rawTool.f[k].s) # <<>>

\* C10: normalization keeps exactly the records with a name alias that is a
\* non-blank string, so the tool list is as long as the raw list minus the
\* records without one.
C10_DroppedExactlyWhenUnnamed ==
    (json # NoDoc /\ rawTools # <<>> /\ pc # "threw") =>
        Len(tools) =
            Cardinality({i \in DOMAIN rawTools : HasUsableAlias(rawTools[i])})

\* the raw list holds objects and primitives only: no property read throws
NoNullRecord == \A i \in DOMAIN rawTools : rawTools[i].kind # "null"

\* the records line 90 accepts
KeptRecords == {i \in DOMAIN rawTools : HasValidName(NameOf(rawTools[i]))}

\* the use-cases source of a record is there but is not text
NonTextUseCases(rawTool) ==
    GtmUseCasesOf(rawTool).t \notin {"string", "undefined"}

\* C11: a kept record whose use-cases source is absent or not text gets the
\* empty use_cases sequence, and normalization of the other records and the
\* request go on: every record with a valid name is in the tool list.
C11_NonTextUseCasesTolerated ==
    (json # NoDoc /\ rawTools # <<>> /\ NoNullRecord) =>
        /\ pc # "threw"
        /\ Len(tools) = Cardinality(KeptRecords)
        /\ \A i \in DOMAIN tools :
              (\E j \in KeptRecords :
                  /\ NonTextUseCases(rawTools[j])
                  /\ trim(NameOf(rawTools[j]).s) = tools[i].name
                  /\ \A k \in KeptRecords :
                        trim(NameOf(rawTools[k]).s) = tools[i].name => k = j)
                  => tools[i].use_cases = <<>>

\* the key under which a tool is filed: its name, lower-cased and trimmed
KeyOf(tool) == toLowerCase(trim(tool.name))

\* the positions of the tool list filed under key k
FiledUnder(k) == {i \in DOMAIN tools : KeyOf(tools[i]) = k}

Last(S) == CHOOSE i \in S : \A j \in S : j <= i

\* C12: every key of the lookup map is non-empty and is the lower-cased
\* trimmed name of the tool it maps to; every tool of the map has a non-empty
\* trimmed name and is in the tool list; every tool of the list is filed; and
\* a key shared by several kept records maps to the last of them in catalog
\* order.
C12_LookupMapWellFormed ==
    /\ \A k \in DOMAIN toolMap :
          /\ k # <<>>
          /\ k = KeyOf(toolMap[k])
          /\ toolMap[k].name # <<>>
          /\ trim(toolMap[k].name) = toolMap[k].name
          /\ FiledUnder(k) # {}
          /\ toolMap[k] = tools[Last(FiledUnder(k))]
    /\ \A i \in DOMAIN tools : KeyOf(tools[i]) \in DOMAIN toolMap
    /\ (json # NoDoc /\ rawTools # <<>> /\ pc # "threw") =>
          \A k \in DOMAIN toolMap :
              LET same == {i \in KeptRecords :
                              toLowerCase(trim(NameOf(rawTools[i]).s)) = k}
              IN  /\ same # {}
                  /\ toolMap[k].name = trim(NameOf(rawTools[Last(same)]).s)
                  /\ toolMap[k].use_cases
                         = UseCasesOf(GtmUseCasesOf(rawTools[Last(same)]))

\* two kept records share the key "a"; the map holds the later one, "A"
C12_Witness ==
    /\ rawTools = <<RecA, RecPaddedA>>
    /\ Len(tools) = 2
    /\ DOMAIN toolMap = {<<"a">>}
    /\ toolMap[<<"a">>].name = <<"A">>
    /\ toolMap[<<"a">>] = tools[2]

====
